---- MODULE Spec2Model ----
(***************************************************************************)
(* Model of src/src/main.rs: a browser-driven extractor of utility billing *)
(* records.  main() drives a WebDriver session through login and menu      *)
(* screens, extracts the recent-window records concurrently, computes the  *)
(* pivot period, walks the older options of the period picker, and prints  *)
(* the merged records as JSON.                                             *)
(*                                                                         *)
(* Text is modelled as a sequence of characters (one-character strings).   *)
(* The three Hangul characters the program uses are written as the tokens  *)
(* "nyeon" (year mark), "wol" (month mark) and "won" (currency glyph);     *)
(* each is one character of three UTF-8 bytes.                             *)
(* Option<T> is a sequence of length at most one: <<>> is None, <<v>> is   *)
(* Some(v).  Result<T> is a record [ok, val].                              *)
(***************************************************************************)
EXTENDS Integers, Sequences, FiniteSets, TLC

None == <<>>
Some(v) == <<v>>
IsSome(o) == o # <<>>
Unwrap(o) == o[1]

Ok(v) == [ok |-> TRUE, val |-> v]
Err(tag) == [ok |-> FALSE, val |-> tag]

(***************************************************************************)
(* Characters and numbers                                                  *)
(***************************************************************************)
Digits == <<"0", "1", "2", "3", "4", "5", "6", "7", "8", "9">>

IsDigit(c) == \E i \in 1..10 : Digits[i] = c

DigitVal(c) == (CHOOSE i \in 1..10 : Digits[i] = c) - 1

\* str::len() counts UTF-8 bytes: three for each Hangul character.
ByteLen(c) == IF c \in {"nyeon", "wol", "won"} THEN 3 ELSE 1

RECURSIVE str_len(_)
str_len(s) == IF s = <<>> THEN 0 ELSE ByteLen(Head(s)) + str_len(Tail(s))

RECURSIVE DecVal(_)
DecVal(ds) ==
    IF ds = <<>> THEN 0
    ELSE DecVal(SubSeq(ds, 1, Len(ds) - 1)) * 10 + DigitVal(ds[Len(ds)])

AllDigits(s) == \A i \in 1..Len(s) : IsDigit(s[i])

\* How many leading digits a numeric format item consumes: greedy, at most max.
RECURSIVE DigitPrefixLen(_, _)
DigitPrefixLen(s, max) ==
    IF max = 0 \/ s = <<>> \/ ~IsDigit(Head(s)) THEN 0
    ELSE 1 + DigitPrefixLen(Tail(s), max - 1)

Drop(s, n) == SubSeq(s, n + 1, Len(s))

\* Decimal rendering of a natural number ("{}").
RECURSIVE fmt_int(_)
fmt_int(n) == IF n < 10 THEN <<Digits[n + 1]>> ELSE fmt_int(n \div 10) \o <<Digits[(n % 10) + 1]>>

\* "{:02}": at least two digits, zero padded.
fmt_02(n) == IF n < 10 THEN <<"0">> \o fmt_int(n) ELSE fmt_int(n)

(***************************************************************************)
(* str::replace and str::split                                             *)
(***************************************************************************)
StartsWith(s, pat) == Len(s) >= Len(pat) /\ SubSeq(s, 1, Len(pat)) = pat

\* s.replace(pat, ""): every non-overlapping occurrence removed, left to right.
RECURSIVE remove_all(_, _)
remove_all(s, pat) ==
    IF s = <<>> THEN <<>>
    ELSE IF StartsWith(s, pat) THEN remove_all(Drop(s, Len(pat)), pat)
    ELSE <<Head(s)>> \o remove_all(Tail(s), pat)

\* s.split(c).collect(): the pieces between the separators; never empty.
RECURSIVE split(_, _)
split(s, c) ==
    IF \A i \in 1..Len(s) : s[i] # c THEN <<s>>
    ELSE LET k == CHOOSE i \in 1..Len(s) : s[i] = c /\ \A j \in 1..(i - 1) : s[j] # c
         IN  <<SubSeq(s, 1, k - 1)>> \o split(Drop(s, k), c)

(***************************************************************************)
(* Dates                                                                   *)
(***************************************************************************)
IsLeap(y) == (y % 4 = 0 /\ y % 100 # 0) \/ y % 400 = 0

DaysIn(y, m) ==
    IF m = 2 THEN (IF IsLeap(y) THEN 29 ELSE 28)
    ELSE IF m \in {4, 6, 9, 11} THEN 30 ELSE 31

Date(y, m, d) == [year |-> y, month |-> m, day |-> d]

NoDate == Date(0, 0, 0)

\* NaiveDate::parse_from_str(s, "%Y.%m.%d"): an unsigned year of one to four
\* digits, a month and a day of one or two digits, literal dots between them,
\* nothing after the day, and the three numbers a date of the calendar.
parse_from_str(s) ==
    LET ny == DigitPrefixLen(s, 4)
        s1 == Drop(s, ny)
        nm == IF s1 # <<>> /\ Head(s1) = "." THEN DigitPrefixLen(Tail(s1), 2) ELSE 0
        s2 == IF nm > 0 THEN Drop(Tail(s1), nm) ELSE <<>>
        nd == IF s2 # <<>> /\ Head(s2) = "." THEN DigitPrefixLen(Tail(s2), 2) ELSE 0
        s3 == IF nd > 0 THEN Drop(Tail(s2), nd) ELSE <<"x">>
        y  == DecVal(SubSeq(s, 1, ny))
        m  == DecVal(SubSeq(s1, 2, nm + 1))
        d  == DecVal(SubSeq(s2, 2, nd + 1))
    IN  IF ny > 0 /\ nm > 0 /\ nd > 0 /\ s3 = <<>>
           /\ m \in 1..12 /\ d >= 1 /\ d <= DaysIn(y, m)
        THEN Ok(Date(y, m, d))
        ELSE Err(NoDate)

\* A variant that completes a text of six bytes instead of seven.
parse_date_len6(date_str) ==
    LET date_with_day ==
            IF str_len(date_str) = 6 THEN date_str \o <<".", "0", "1">> ELSE date_str
    IN  parse_from_str(date_with_day)

\* fn parse_date: a text of seven bytes gets ".01" appended before parsing.
parse_date(date_str) ==
    LET date_with_day ==
            IF str_len(date_str) = 7 THEN date_str \o <<".", "0", "1">> ELSE date_str
    IN  parse_from_str(date_with_day)

\* Result::ok(): Some(value) of a success, None of an error.
ok_of(r) == IF r.ok THEN Some(r.val) ELSE None

\* fn parse_date_range: dates[1] is indexed unchecked, so a text without '-'
\* panics; otherwise the result is Ok whatever the two parts hold.
parse_date_range(date_range) ==
    LET dates == split(date_range, "-")
    IN  IF Len(dates) < 2 THEN [panic |-> TRUE, ok |-> FALSE, val |-> <<None, None>>]
        ELSE [panic |-> FALSE, ok |-> TRUE,
              val |-> <<ok_of(parse_date(dates[1])), ok_of(parse_date(dates[2]))>>]

(***************************************************************************)
(* Numbers in text                                                         *)
(***************************************************************************)
\* str::parse::<i64>(): an optional sign and at least one digit, nothing else.
\* (Values beyond 64 bits do not occur in the texts the model draws.)
parse_i64(s) ==
    LET signed == s # <<>> /\ Head(s) \in {"+", "-"}
        ds == IF signed THEN Tail(s) ELSE s
    IN  IF ds # <<>> /\ AllDigits(ds)
        THEN Ok(IF signed /\ Head(s) = "-" THEN 0 - DecVal(ds) ELSE DecVal(ds))
        ELSE Err(0)

\* str::parse::<f64>() on the decimal texts the model draws: an optional sign,
\* digits with at most one '.', at least one digit.  The value is kept exactly
\* as [num, scale], meaning num / 10^scale, with trailing zeros of the fraction
\* removed (120.50 and 120.5 are the same number).
RECURSIVE norm_f64(_, _)
norm_f64(num, scale) ==
    IF scale > 0 /\ num % 10 = 0 THEN norm_f64(num \div 10, scale - 1)
    ELSE [num |-> num, scale |-> scale]

F64Zero == [num |-> 0, scale |-> 0]

parse_f64(s) ==
    LET signed == s # <<>> /\ Head(s) \in {"+", "-"}
        body == IF signed THEN Tail(s) ELSE s
        parts == split(body, ".")
        ip == parts[1]
        fp == IF Len(parts) > 1 THEN parts[2] ELSE <<>>
        mag == DecVal(ip \o fp)
    IN  IF Len(parts) <= 2 /\ AllDigits(ip) /\ AllDigits(fp) /\ Len(ip) + Len(fp) > 0
        THEN Ok(norm_f64(IF signed /\ Head(s) = "-" THEN 0 - mag ELSE mag, Len(fp)))
        ELSE Err(F64Zero)

\* fn parse_use_kwh
parse_use_kwh(kwh_str) ==
    LET cleaned_str == remove_all(remove_all(kwh_str, <<",">>), <<"k", "W", "h">>)
    IN  parse_f64(cleaned_str)

\* A variant that reads the '.' as a decimal point and drops the fraction.
parse_amount_decimal(amount_str) ==
    LET amount_part == split(amount_str, "won")[1]
        amount == remove_all(split(amount_part, ".")[1], <<",">>)
    IN  parse_i64(amount)

\* fn parse_amount
parse_amount(amount_str) ==
    LET amount_part == split(amount_str, "won")[1]
        amount == remove_all(remove_all(amount_part, <<",">>), <<".">>)
    IN  parse_i64(amount)

\* A variant that returns the error of a date part that does not parse, as a
\* '?' on parse_date would.
parse_payment_method_strict(payment_str) ==
    LET parts == split(payment_str, "/")
        method == IF parts[1] # <<>> THEN Some(parts[1]) ELSE None
    IN  IF Len(parts) > 1 /\ ~parse_date(parts[2]).ok THEN Err(<<None, None>>)
        ELSE Ok(<<method, IF Len(parts) > 1 THEN ok_of(parse_date(parts[2])) ELSE None>>)

\* fn parse_payment_method
parse_payment_method(payment_str) ==
    LET parts == split(payment_str, "/")
        method == IF parts[1] # <<>> THEN Some(parts[1]) ELSE None
        date == IF Len(parts) > 1 THEN ok_of(parse_date(parts[2])) ELSE None
    IN  Ok(<<method, date>>)

(***************************************************************************)
(* Records                                                                 *)
(***************************************************************************)
\* struct KepcoData
KepcoData(claim_date, start_date, end_date, usage, amount, paid, unpaid, payment_method, payment_date) ==
    [claim_date |-> claim_date, start_date |-> start_date, end_date |-> end_date,
     usage |-> usage, amount |-> amount, paid |-> paid, unpaid |-> unpaid,
     payment_method |-> payment_method, payment_date |-> payment_date]

NoData == KepcoData(None, None, None, F64Zero, 0, 0, 0, None, None)

\* What the page shows under one container: the text of each span the
\* extractors look up, None when the span is missing or its text unreadable
\* (get_text_by_locator, get_text_by_locator_at_index).
Row(payYm, gigan, useKwh, monthPay, pay, payAmt, payGubnNDay) ==
    [payYm |-> payYm, gigan |-> gigan, useKwh |-> useKwh, monthPay |-> monthPay,
     pay |-> pay, payAmt |-> payAmt, payGubnNDay |-> payGubnNDay]

\* A variant that also takes the default when the text does not parse, as
\* unwrap_or would.
amount_or_default_lenient(text) ==
    IF text = None \/ ~parse_amount(Unwrap(text)).ok THEN Ok(0) ELSE parse_amount(Unwrap(text))

\* usage_row.map_or with the default Ok(0.0): a missing text is the default,
\* a present one is parsed with parse_use_kwh.
usage_or_default(text) == IF text = None THEN Ok(F64Zero) ELSE parse_use_kwh(Unwrap(text))

\* amount_row.map_or with the default Ok(0); the same for paid_row, unpaid_row.
amount_or_default(text) == IF text = None THEN Ok(0) ELSE parse_amount(Unwrap(text))

\* fn extract_data_year, from the texts read: the first failing parse ends it
\* with an error ('?'), in the order the fields are parsed; a usage-window
\* text without '-' panics in parse_date_range.
extract_data_year(row) ==
    LET claim == IF row.payYm = None THEN Ok(NoDate) ELSE parse_date(Unwrap(row.payYm))
        range == IF row.gigan = None
                 THEN [panic |-> FALSE, ok |-> TRUE, val |-> <<None, None>>]
                 ELSE parse_date_range(Unwrap(row.gigan))
        usage == usage_or_default(row.useKwh)
        amount == amount_or_default(row.monthPay)
        paid == amount_or_default(row.pay)
        unpaid == amount_or_default(row.payAmt)
        payment == IF row.payGubnNDay = None THEN Ok(<<None, None>>)
                   ELSE parse_payment_method(Unwrap(row.payGubnNDay))
    IN  IF ~claim.ok THEN [kind |-> "err", data |-> NoData]
        ELSE IF range.panic THEN [kind |-> "panic", data |-> NoData]
        ELSE IF ~usage.ok \/ ~amount.ok \/ ~paid.ok \/ ~unpaid.ok \/ ~payment.ok
        THEN [kind |-> "err", data |-> NoData]
        ELSE [kind |-> "ok",
              data |-> KepcoData(IF row.payYm = None THEN None ELSE Some(claim.val),
                                 range.val[1], range.val[2], usage.val, amount.val,
                                 paid.val, unpaid.val, payment.val[1], payment.val[2])]

\* fn extract_data_month: no usage window, the payment text kept as read.
extract_data_month(row) ==
    LET claim == IF row.payYm = None THEN Ok(NoDate) ELSE parse_date(Unwrap(row.payYm))
        usage == usage_or_default(row.useKwh)
        amount == amount_or_default(row.monthPay)
        paid == amount_or_default(row.pay)
        unpaid == amount_or_default(row.payAmt)
    IN  IF ~claim.ok \/ ~usage.ok \/ ~amount.ok \/ ~paid.ok \/ ~unpaid.ok
        THEN [kind |-> "err", data |-> NoData]
        ELSE [kind |-> "ok",
              data |-> KepcoData(IF row.payYm = None THEN None ELSE Some(claim.val),
                                 None, None, usage.val, amount.val, paid.val, unpaid.val,
                                 row.payGubnNDay, None)]

(***************************************************************************)
(* Ordering, pivot, output                                                 *)
(***************************************************************************)
\* NaiveDate's order.
date_lt(a, b) ==
    \/ a.year < b.year
    \/ a.year = b.year /\ a.month < b.month
    \/ a.year = b.year /\ a.month = b.month /\ a.day < b.day

\* Option<NaiveDate>'s order: None is less than every Some.
opt_lt(a, b) ==
    IF a = None THEN b # None
    ELSE b # None /\ date_lt(Unwrap(a), Unwrap(b))

\* The comparator of main's sort_by, |a, b| b.claim_date.cmp(&a.claim_date):
\* a goes before b when a's claim_date is the greater.
sort_before(a, b) == opt_lt(b.claim_date, a.claim_date)

\* One insertion of a stable sort: x goes after every element that does not
\* have to come after it.
RECURSIVE insert_sorted(_, _)
insert_sorted(v, x) ==
    IF v = <<>> THEN <<x>>
    ELSE IF sort_before(x, Head(v)) THEN <<x>> \o v
    ELSE <<Head(v)>> \o insert_sorted(Tail(v), x)

\* Vec::sort_by (stable) with that comparator.
RECURSIVE sort_by(_)
sort_by(v) ==
    IF v = <<>> THEN <<>>
    ELSE insert_sorted(sort_by(SubSeq(v, 1, Len(v) - 1)), v[Len(v)])

NA == <<"N", "/", "A">>

\* format!("{}nyeon {:02}wol", date.year(), date.month())
fmt_reference(date) ==
    fmt_int(date.year) \o <<"nyeon", " ">> \o fmt_02(date.month) \o <<"wol">>

\* A variant that takes the first (newest) record instead of the last.
reference_date_of_first(v) ==
    LET first_claim == v[1].claim_date
    IN  IF first_claim = None THEN NA ELSE fmt_reference(Unwrap(first_claim))

\* main's reference_date: the claim_date of the LAST element of the sorted
\* records, rendered, or "N/A" when that record has none.  (v is not empty.)
reference_date_of(v) ==
    LET last_claim == v[Len(v)].claim_date
    IN  IF last_claim = None THEN NA ELSE fmt_reference(Unwrap(last_claim))

\* "{:04}" of a year, as chrono writes it in a serialized date.
fmt_04(n) ==
    IF n < 10 THEN <<"0", "0", "0">> \o fmt_int(n)
    ELSE IF n < 100 THEN <<"0", "0">> \o fmt_int(n)
    ELSE IF n < 1000 THEN <<"0">> \o fmt_int(n)
    ELSE fmt_int(n)

JsonNull == <<"n", "u", "l", "l">>

\* serde's form of Option<NaiveDate>: null, or "YYYY-MM-DD".
json_date(o) ==
    IF o = None THEN JsonNull
    ELSE fmt_04(Unwrap(o).year) \o <<"-">> \o fmt_02(Unwrap(o).month)
         \o <<"-">> \o fmt_02(Unwrap(o).day)

\* serde's form of one KepcoData: the fields in declaration order.
json_object(d) ==
    [claim_date |-> json_date(d.claim_date),
     start_date |-> json_date(d.start_date),
     end_date |-> json_date(d.end_date),
     usage |-> d.usage, amount |-> d.amount, paid |-> d.paid, unpaid |-> d.unpaid,
     payment_method |-> IF d.payment_method = None THEN JsonNull
                        ELSE Unwrap(d.payment_method),
     payment_date |-> json_date(d.payment_date)]

\* serde_json::to_string_pretty(&data_vec): an array, in the vector's order.
to_json(v) == [k \in 1..Len(v) |-> json_object(v[k])]

(***************************************************************************)
(* Bounds and the texts the page may show                                  *)
(***************************************************************************)
\* At most this many children under the record container.
MaxRows == 2

\* At most this many options in the period picker.
MaxOptions == 2

\* click_element_with_retries is also explored alone with max_attempts in
\* 0..MaxAttemptsBound.
MaxAttemptsBound == 5

\* The max_attempts main passes to click_element_with_retries.
MainMaxAttempts == 10

\* The seconds main and parsing_options_data pass to wait_for_element_hidden.
HiddenTimeoutSecs == 20

TxtMay == <<"2", "0", "2", "3", ".", "0", "5">>
TxtApr == <<"2", "0", "2", "3", ".", "0", "4">>
TxtMar == <<"2", "0", "2", "3", ".", "0", "3">>
TxtRange == <<"2", "0", "2", "3", ".", "0", "4", ".", "1", "5", "-",
              "2", "0", "2", "3", ".", "0", "5", ".", "1", "4">>
TxtNoDash == <<"2", "0", "2", "3", ".", "0", "3", ".", "0", "1">>
TxtKwh120 == <<"1", "2", "0", "k", "W", "h">>
TxtKwh99 == <<"9", "9", "k", "W", "h">>
TxtWon45000 == <<"4", "5", ",", "0", "0", "0", "won">>
TxtWon38500 == <<"3", "8", ",", "5", "0", "0", "won">>
TxtWon12345 == <<"1", ",", "2", "3", "4", ".", "5", "won">>
TxtWon0 == <<"0", "won">>
TxtDash == <<"-">>
TxtPayment == <<"A", "/", "2", "0", "2", "3", ".", "0", "5", ".", "2", "5">>

RowMay == Row(Some(TxtMay), Some(TxtRange), Some(TxtKwh120), Some(TxtWon45000),
              Some(TxtWon45000), Some(TxtWon0), Some(TxtPayment))
RowApr == Row(Some(TxtApr), Some(TxtRange), Some(TxtKwh99), Some(TxtWon38500),
              None, None, None)
RowMar == Row(Some(TxtMar), None, None, Some(TxtWon12345), None, None, None)
\* No billing-month text on the page.
RowNoPeriod == Row(None, None, Some(TxtKwh99), Some(TxtWon38500), None, None, None)
\* An amount that is no number.
RowBadAmount == Row(Some(TxtMar), None, None, Some(TxtDash), None, None, None)
\* A usage window without '-'.
RowNoDash == Row(Some(TxtMar), Some(TxtNoDash), None, None, None, None, None)

SampleRows == {RowMay, RowApr, RowMar, RowNoPeriod, RowBadAmount, RowNoDash}

OptMay == <<"2", "0", "2", "3", "nyeon", " ", "0", "5", "wol">>
OptApr == <<"2", "0", "2", "3", "nyeon", " ", "0", "4", "wol">>
OptMar == <<"2", "0", "2", "3", "nyeon", " ", "0", "3", "wol">>

\* What option.text() gives for one option: its text, or None on an error.
OptionTexts == {Some(OptMay), Some(OptApr), Some(OptMar), None}

\* What element.attr("aria-hidden") gives: Ok(Some("true")), Ok(Some(other)),
\* Ok(None), Err.
AriaReads == {"true", "false", "absent", "error"}

BoundedSeq(S, n) == UNION {[1..k -> S] : k \in 0..n}

Range(f) == {f[k] : k \in DOMAIN f}

Perms(S) == {f \in [1..Cardinality(S) -> S] : \A a, b \in DOMAIN f : f[a] = f[b] => a = b}

(***************************************************************************)
(* The statements of main, in order, and of the loop body of               *)
(* parsing_options_data                                                    *)
(***************************************************************************)
Program == <<
    [op |-> "connect"],
    [op |-> "driver", what |-> "set_window_rect"],
    [op |-> "driver", what |-> "goto"],
    [op |-> "wait_for_element", loc |-> "btnSiteMap"],
    [op |-> "click_element", loc |-> "btnSiteMap"],
    [op |-> "wait_for_element", loc |-> "mobileGoLogin"],
    [op |-> "click_element", loc |-> "mobileGoLogin"],
    [op |-> "wait_for_element", loc |-> "ui_id"],
    [op |-> "enter_value_in_element", loc |-> "ui_id"],
    [op |-> "enter_value_in_element", loc |-> "ui_pw"],
    [op |-> "click_element", loc |-> "btn_login"],
    [op |-> "click_element_with_retries", loc |-> "fee_link", max_attempts |-> MainMaxAttempts],
    [op |-> "wait_for_element", loc |-> "inp_searchCustNo"],
    [op |-> "wait_for_element_hidden", loc |-> "processMsgComp", duration |-> HiddenTimeoutSecs],
    [op |-> "enter_value_in_element", loc |-> "inp_searchCustNo"],
    [op |-> "click_element", loc |-> "btn_search"],
    [op |-> "wait_for_element", loc |-> "btn_moveDetail"],
    [op |-> "driver", what |-> "execute"],
    [op |-> "click_element", loc |-> "btn_moveDetail"],
    [op |-> "click_element_with_retries", loc |-> "option_1year", max_attempts |-> MainMaxAttempts],
    [op |-> "wait_for_element_hidden", loc |-> "processMsgComp", duration |-> HiddenTimeoutSecs],
    [op |-> "get_children_ids_to_map"],
    [op |-> "parse_data_from_parent_ids"],
    [op |-> "sort_pivot"],
    [op |-> "driver", what |-> "back"],
    [op |-> "wait_for_element", loc |-> "slb_searchYm"],
    [op |-> "wait_for_element_hidden", loc |-> "processMsgComp", duration |-> HiddenTimeoutSecs],
    [op |-> "get_option_index"],
    [op |-> "parsing_options_data"],
    [op |-> "merge_emit"],
    [op |-> "kill"] >>

LoopBody == <<
    [op |-> "option_click"],
    [op |-> "wait_for_element_hidden", loc |-> "processMsgComp", duration |-> HiddenTimeoutSecs],
    [op |-> "enter_value_in_element", loc |-> "inp_searchCustNo"],
    [op |-> "click_element", loc |-> "btn_search"],
    [op |-> "wait_for_element", loc |-> "ui_generator"],
    [op |-> "extract_data_month"] >>

\* The first click_element_with_retries statement of main.
FirstRetryPc == CHOOSE k \in 1..Len(Program) :
    /\ Program[k].op = "click_element_with_retries"
    /\ \A j \in 1..(k - 1) : Program[j].op # "click_element_with_retries"

(***************************************************************************)
(* State                                                                   *)
(***************************************************************************)
VARIABLES
    pc,              \* the statement of main about to run (index of Program)
    lpc,             \* inside parsing_options_data's loop: index of LoopBody; else 0
    exit,            \* "running", "ok" (exit 0), "err" (main returned Err), "panic"
    cause,           \* why the run ended with "err" or "panic"
    sessionClosed,   \* Client::close() has succeeded
    driverKilled,    \* Child::kill() has been called on the driver process
    stdout,          \* the JSON documents printed so far
    call,            \* the frame of the helper that is in its loop, if any
    last,            \* what the most recent statement or helper returned: [fn, res, info]
    map,             \* the identifiers get_children_ids_to_map returned
    tasks,           \* the tasks parse_data_from_parent_ids spawned
    data_vec,
    reference_date,
    option_index,
    nOptions,        \* the number of options of the picker
    opt_i,           \* parsing_options_data's loop index i
    kepco_data_vec

vars == <<pc, lpc, exit, cause, sessionClosed, driverKilled, stdout, call, last, map,
          tasks, data_vec, reference_date, option_index, nOptions, opt_i, kepco_data_vec>>

ctl == <<pc, lpc, exit, cause>>
proc == <<sessionClosed, driverKilled>>
firstPass == <<map, tasks, data_vec, reference_date>>
olderPass == <<option_index, nOptions, opt_i, kepco_data_vec>>

NoCall == [fn |-> "none"]
NoLast == [fn |-> "none", res |-> "none", info |-> <<>>]
NoResult == [kind |-> "none", data |-> NoData]

Init ==
    /\ pc = 1 /\ lpc = 0 /\ exit = "running" /\ cause = "none"
    /\ sessionClosed = FALSE /\ driverKilled = FALSE
    /\ stdout = <<>>
    /\ call = NoCall /\ last = NoLast
    /\ map = {} /\ tasks = <<>> /\ data_vec = <<>> /\ reference_date = <<>>
    /\ option_index = 0 /\ nOptions = 0 /\ opt_i = 0 /\ kepco_data_vec = <<>>

\* A variant in which a statement may run after an earlier one has failed.
RunningDespiteError == pc <= Len(Program)

\* main has not returned: no '?' has propagated an error, nothing has panicked,
\* and the last statement is not behind it.
Running == exit = "running" /\ pc <= Len(Program)

\* The statement about to run.
Cur == IF lpc > 0 THEN LoopBody[lpc] ELSE Program[pc]

\* A statement is ready to start: the run is alive and no helper is in its loop.
At(op) == Running /\ call.fn = "none" /\ Cur.op = op

\* The statement completed: on to the next one.
Advance ==
    /\ pc' = (IF lpc = 0 THEN pc + 1 ELSE pc)
    /\ lpc' = (IF lpc = 0 THEN 0 ELSE lpc + 1)
    /\ UNCHANGED <<exit, cause>>

\* The statement's '?' returned an error from main: the process ends non-zero.
Fail(why) == exit' = "err" /\ cause' = why /\ UNCHANGED <<pc, lpc>>

(***************************************************************************)
(* main: connection and plain driver calls                                 *)
(***************************************************************************)
\* main's connection loop: a successful connect breaks out; a failed one goes
\* to the loop's one-second sleep, after which the loop tries again.  The loop
\* has no limit.
connect ==
    /\ At("connect")
    /\ \E connected \in BOOLEAN :
          IF connected
          THEN /\ Advance
               /\ last' = [fn |-> "connect", res |-> "ok", info |-> <<>>]
               /\ UNCHANGED call
          ELSE /\ call' = [fn |-> "connect_sleep"]
               /\ UNCHANGED <<ctl, last>>
    /\ UNCHANGED <<proc, stdout, firstPass, olderPass>>

\* tokio::time::sleep(1 s) in the connection loop is over: back to connect.
connect_sleep ==
    /\ Running /\ call.fn = "connect_sleep"
    /\ call' = NoCall
    /\ UNCHANGED <<ctl, proc, stdout, last, firstPass, olderPass>>

\* set_window_rect, goto, execute and back, each followed by '?'.
driver_call ==
    /\ At("driver")
    /\ \E ok \in BOOLEAN :
          /\ last' = [fn |-> "driver", res |-> IF ok THEN "ok" ELSE "err", info |-> Cur.what]
          /\ IF ok THEN Advance ELSE Fail("driver_error")
    /\ UNCHANGED <<proc, stdout, call, firstPass, olderPass>>

(***************************************************************************)
(* fn wait_for_element                                                     *)
(***************************************************************************)
\* A variant that closes the session and kills the driver process but then
\* returns success, as the Err arm would without its last expression.
wait_for_element_result_swallowed(found, closeOk) ==
    IF found THEN [res |-> "ok", found |-> TRUE, closed |-> FALSE, killed |-> FALSE]
    ELSE IF closeOk THEN [res |-> "ok", found |-> FALSE, closed |-> TRUE, killed |-> TRUE]
    ELSE [res |-> "err", found |-> FALSE, closed |-> FALSE, killed |-> FALSE]

\* What wait_for_element does and returns, given whether the element appeared
\* and, if not, whether Client::close() succeeded: a failed close returns its
\* error ('?') before the driver process is killed.  (Child::kill() on the
\* process main spawned and never waited for does not fail, so its expect()
\* does not panic.)
wait_for_element_result(found, closeOk) ==
    IF found THEN [res |-> "ok", found |-> TRUE, closed |-> FALSE, killed |-> FALSE]
    ELSE IF closeOk THEN [res |-> "err", found |-> FALSE, closed |-> TRUE, killed |-> TRUE]
    ELSE [res |-> "err", found |-> FALSE, closed |-> FALSE, killed |-> FALSE]

wait_for_element ==
    /\ At("wait_for_element")
    /\ \E found, closeOk \in BOOLEAN :
          LET r == wait_for_element_result(found, closeOk)
          IN  /\ last' = [fn |-> "wait_for_element", res |-> r.res, info |-> r]
              /\ sessionClosed' = (sessionClosed \/ r.closed)
              /\ driverKilled' = (driverKilled \/ r.killed)
              /\ IF r.res = "ok" THEN Advance ELSE Fail("wait_timeout")
    /\ UNCHANGED <<stdout, call, firstPass, olderPass>>

(***************************************************************************)
(* fn click_element, fn enter_value_in_element                             *)
(***************************************************************************)
\* click_element: a missing element is an error, and so is a failed click.
click_element_result(found, clickOk) ==
    IF found
    THEN IF clickOk THEN [res |-> "ok", found |-> TRUE, acted |-> TRUE]
         ELSE [res |-> "err", found |-> TRUE, acted |-> FALSE]
    ELSE [res |-> "err", found |-> FALSE, acted |-> FALSE]

click_element ==
    /\ At("click_element")
    /\ \E found, clickOk \in BOOLEAN :
          LET r == click_element_result(found, clickOk)
          IN  /\ last' = [fn |-> "click_element", res |-> r.res, info |-> r]
              /\ IF r.res = "ok" THEN Advance
                 ELSE Fail(IF found THEN "click_failed" ELSE "click_missing")
    /\ UNCHANGED <<proc, stdout, call, firstPass, olderPass>>

\* A variant that reports a missing element as an error, as click_element does.
enter_value_in_element_result_strict(found, sendOk) ==
    IF found THEN [res |-> "ok", found |-> TRUE, acted |-> sendOk]
    ELSE [res |-> "err", found |-> FALSE, acted |-> FALSE]

\* enter_value_in_element: a missing element and a failed send_keys are only
\* logged; the function returns Ok(()) on every path.
enter_value_in_element_result(found, sendOk) ==
    [res |-> "ok", found |-> found, acted |-> found /\ sendOk]

enter_value_in_element ==
    /\ At("enter_value_in_element")
    /\ \E found, sendOk \in BOOLEAN :
          LET r == enter_value_in_element_result(found, sendOk)
          IN  /\ last' = [fn |-> "enter_value_in_element", res |-> r.res, info |-> r]
              /\ IF r.res = "ok" THEN Advance ELSE Fail("enter_failed")
    /\ UNCHANGED <<proc, stdout, call, firstPass, olderPass>>

(***************************************************************************)
(* fn click_element_with_retries                                           *)
(***************************************************************************)
\* A variant of the exit test that allows one attempt too many.
retries_exhausted_late(attempts, max_attempts) == attempts > max_attempts

\* The loop's exit test.
retries_exhausted(attempts, max_attempts) == attempts >= max_attempts

\* What one attempt may do: find and click, find and fail to click, not find.
AttemptOutcomes == {"clicked", "click_err", "find_err"}

RetryFrame(max_attempts) ==
    [fn |-> "click_element_with_retries", attempts |-> 0, max_attempts |-> max_attempts,
     log |-> <<>>, sleeps |-> 0]

\* let mut attempts = 0;
click_element_with_retries_call ==
    /\ At("click_element_with_retries")
    /\ call' = RetryFrame(Cur.max_attempts)
    /\ last' = NoLast
    /\ UNCHANGED <<ctl, proc, stdout, firstPass, olderPass>>

\* One pass of the loop: give up when attempts >= max_attempts, else try once;
\* a failed try sleeps one second and counts.
click_element_with_retries_loop ==
    /\ Running /\ call.fn = "click_element_with_retries"
    /\ IF retries_exhausted(call.attempts, call.max_attempts)
       THEN /\ last' = [fn |-> call.fn, res |-> "err", info |-> call]
            /\ call' = NoCall
            /\ Fail("retry_exhausted")
       ELSE \E out \in AttemptOutcomes :
               IF out = "clicked"
               THEN /\ last' = [fn |-> call.fn, res |-> "ok",
                                info |-> [call EXCEPT !.log = Append(@, out)]]
                    /\ call' = NoCall
                    /\ Advance
               ELSE /\ call' = [call EXCEPT !.attempts = @ + 1, !.sleeps = @ + 1,
                                            !.log = Append(@, out)]
                    /\ UNCHANGED <<ctl, last>>
    /\ UNCHANGED <<proc, stdout, firstPass, olderPass>>

(***************************************************************************)
(* fn wait_for_element_hidden                                              *)
(***************************************************************************)
\* A variant that also takes a missing attribute for "hidden".
is_hidden_or_absent(read) == read \in {"true", "absent"}

\* The match arm that ends the poll loop: Ok(Some(value)) with value "true".
is_hidden(read) == read = "true"

\* tokio's timeout around the poll loop; time is counted in the loop's
\* one-second sleeps (a read of the attribute is short beside them).
hidden_timed_out(elapsed, duration) == elapsed >= duration

\* The call: wait_for_element first ('?'), then the poll loop starts.
wait_for_element_hidden_call ==
    /\ At("wait_for_element_hidden")
    /\ \E found, closeOk \in BOOLEAN :
          LET r == wait_for_element_result(found, closeOk)
          IN  /\ last' = [fn |-> "wait_for_element", res |-> r.res, info |-> r]
              /\ sessionClosed' = (sessionClosed \/ r.closed)
              /\ driverKilled' = (driverKilled \/ r.killed)
              /\ IF r.res = "ok"
                 THEN /\ call' = [fn |-> "wait_for_element_hidden", duration |-> Cur.duration,
                                  elapsed |-> 0, polls |-> 0, read |-> "none"]
                      /\ UNCHANGED ctl
                 ELSE /\ Fail("wait_timeout")
                      /\ UNCHANGED call
    /\ UNCHANGED <<stdout, firstPass, olderPass>>

\* One poll: read aria-hidden; "true" ends the wait with Ok, anything else
\* sleeps one second and polls again.
wait_for_element_hidden_poll ==
    /\ Running /\ call.fn = "wait_for_element_hidden"
    /\ ~hidden_timed_out(call.elapsed, call.duration)
    /\ \E read \in AriaReads :
          IF is_hidden(read)
          THEN /\ last' = [fn |-> call.fn, res |-> "ok",
                           info |-> [call EXCEPT !.polls = @ + 1, !.read = read]]
               /\ call' = NoCall
               /\ Advance
          ELSE /\ call' = [call EXCEPT !.polls = @ + 1, !.read = read, !.elapsed = @ + 1]
               /\ UNCHANGED <<ctl, last>>
    /\ UNCHANGED <<proc, stdout, firstPass, olderPass>>

\* The timeout fired: the function returns an error, and does nothing else.
wait_for_element_hidden_timeout ==
    /\ Running /\ call.fn = "wait_for_element_hidden"
    /\ hidden_timed_out(call.elapsed, call.duration)
    /\ last' = [fn |-> call.fn, res |-> "err", info |-> call]
    /\ call' = NoCall
    /\ Fail("hidden_timeout")
    /\ UNCHANGED <<proc, stdout, firstPass, olderPass>>

(***************************************************************************)
(* fn get_children_ids_to_map, fn parse_data_from_parent_ids               *)
(***************************************************************************)
\* The script's answer is a list of ids (duplicates possible); the DashMap
\* keeps each id once.  A failed script or an answer of another shape is an
\* error.
get_children_ids_to_map ==
    /\ At("get_children_ids_to_map")
    /\ \E ok \in BOOLEAN :
          IF ok
          THEN \E ids \in BoundedSeq(1..MaxRows, MaxRows) :
                  /\ map' = Range(ids)
                  /\ last' = [fn |-> "get_children_ids_to_map", res |-> "ok", info |-> ids]
                  /\ Advance
          ELSE /\ last' = [fn |-> "get_children_ids_to_map", res |-> "err", info |-> <<>>]
               /\ Fail("script_error")
               /\ UNCHANGED map
    /\ UNCHANGED <<proc, stdout, call, tasks, data_vec, reference_date, olderPass>>

\* for entry in map.iter() { tokio::spawn(...) }: one task per id, in the
\* map's iteration order, which is arbitrary.
parse_data_from_parent_ids_spawn ==
    /\ At("parse_data_from_parent_ids")
    /\ \E order \in Perms(map) :
          tasks' = [k \in 1..Cardinality(map) |->
                       [id |-> order[k], state |-> "running", result |-> NoResult]]
    /\ call' = [fn |-> "parse_data_from_parent_ids"]
    /\ last' = NoLast
    /\ UNCHANGED <<ctl, proc, stdout, map, data_vec, reference_date, olderPass>>

\* What extract_data_year and extract_data_month return for each sample row,
\* as a table: the functions are pure, so a call is a look-up.
extract_data_year_of == [row \in SampleRows |-> extract_data_year(row)]

extract_data_month_of == [row \in SampleRows |-> extract_data_month(row)]

\* One spawned task runs extract_data_year on what the page shows under its
\* id, and ends with a record, an error or a panic.
extract_task(k) ==
    /\ Running /\ call.fn = "parse_data_from_parent_ids"
    /\ tasks[k].state = "running"
    /\ \E row \in SampleRows :
          tasks' = [tasks EXCEPT ![k] = [id |-> @.id, state |-> "done",
                                         result |-> extract_data_year_of[row]]]
    /\ UNCHANGED <<ctl, proc, stdout, call, last, map, data_vec, reference_date, olderPass>>

\* A variant that stops at the first failed task, as a '?' on each result would.
RECURSIVE collect_results_until_error(_)
collect_results_until_error(ts) ==
    IF ts = <<>> \/ Head(ts).result.kind # "ok" THEN <<>>
    ELSE <<Head(ts).result.data>> \o collect_results_until_error(Tail(ts))

\* The loop over join_all's results: Ok(Ok(data)) is pushed, Ok(Err) and a
\* join error (a panicked task) are only logged.
collect_results(ts) ==
    LET kept == SelectSeq(ts, LAMBDA t : t.result.kind = "ok")
    IN  [k \in 1..Len(kept) |-> kept[k].result.data]

\* A variant that is ready as soon as the first spawned task has ended (or
\* there is none), as a wait for one handle would be.
join_first_done(ts) == IF ts = <<>> THEN TRUE ELSE ts[1].state = "done"

\* join_all(tasks) is ready when every task has ended, with a result or a panic.
join_all_done(ts) == \A k \in 1..Len(ts) : ts[k].state = "done"

\* join_all(tasks).await, the loop over the results, Ok(data_vec).
parse_data_from_parent_ids_join ==
    /\ Running /\ call.fn = "parse_data_from_parent_ids"
    /\ join_all_done(tasks)
    /\ data_vec' = collect_results(tasks)
    /\ call' = NoCall
    /\ last' = [fn |-> "parse_data_from_parent_ids", res |-> "ok", info |-> Len(tasks)]
    /\ Advance
    /\ UNCHANGED <<proc, stdout, map, tasks, reference_date, olderPass>>

(***************************************************************************)
(* main: sort and pivot                                                    *)
(***************************************************************************)
\* data_vec.sort_by(...); reference_date = data_vec[data_vec.len() - 1]...
\* With no record, len() - 1 is out of range and main panics.
sort_pivot ==
    /\ At("sort_pivot")
    /\ data_vec' = sort_by(data_vec)
    /\ IF data_vec = <<>>
       THEN /\ exit' = "panic" /\ cause' = "index_out_of_bounds"
            /\ last' = [fn |-> "sort_pivot", res |-> "panic", info |-> <<>>]
            /\ UNCHANGED <<pc, lpc, reference_date>>
       ELSE /\ reference_date' = reference_date_of(sort_by(data_vec))
            /\ last' = [fn |-> "sort_pivot", res |-> "ok", info |-> <<>>]
            /\ Advance
    /\ map' = {}
    /\ tasks' = <<>>
    /\ UNCHANGED <<proc, stdout, call, olderPass>>

(***************************************************************************)
(* fn get_option_index                                                     *)
(***************************************************************************)
\* A variant that keeps searching and returns the last option that matches.
option_index_of_last(options, text) ==
    IF \E k \in 1..Len(options) : options[k] = Some(text)
    THEN Ok((CHOOSE k \in 1..Len(options) :
                /\ options[k] = Some(text)
                /\ \A j \in (k + 1)..Len(options) : options[j] # Some(text)) - 1)
    ELSE Err(0)

\* The index (from 0) of the first option whose text was read and equals
\* text; an error when there is none.
option_index_of(options, text) ==
    IF \E k \in 1..Len(options) : options[k] = Some(text)
    THEN Ok((CHOOSE k \in 1..Len(options) :
                /\ options[k] = Some(text)
                /\ \A j \in 1..(k - 1) : options[j] # Some(text)) - 1)
    ELSE Err(0)

get_option_index ==
    /\ At("get_option_index")
    /\ \E found \in BOOLEAN :
          IF found
          THEN \E options \in BoundedSeq(OptionTexts, MaxOptions) :
                  LET r == option_index_of(options, reference_date)
                  IN  IF r.ok
                      THEN /\ option_index' = r.val
                           /\ nOptions' = Len(options)
                           /\ last' = [fn |-> "get_option_index", res |-> "ok", info |-> options]
                           /\ Advance
                      ELSE /\ last' = [fn |-> "get_option_index", res |-> "err", info |-> options]
                           /\ Fail("option_not_found")
                           /\ UNCHANGED <<option_index, nOptions>>
          ELSE /\ last' = [fn |-> "get_option_index", res |-> "err", info |-> <<>>]
               /\ Fail("driver_error")
               /\ UNCHANGED <<option_index, nOptions>>
    /\ UNCHANGED <<proc, stdout, call, firstPass, opt_i, kepco_data_vec>>

(***************************************************************************)
(* fn parsing_options_data                                                 *)
(***************************************************************************)
\* The entry: find the select and its options ('?'), then the loop from
\* option_index to the last option.
parsing_options_data_enter ==
    /\ At("parsing_options_data") /\ lpc = 0
    /\ last' = NoLast
    /\ \E found \in BOOLEAN :
          IF found
          THEN /\ kepco_data_vec' = <<>>
               /\ opt_i' = option_index
               /\ pc' = (IF option_index < nOptions THEN pc ELSE pc + 1)
               /\ lpc' = (IF option_index < nOptions THEN 1 ELSE 0)
               /\ UNCHANGED <<exit, cause>>
          ELSE /\ Fail("driver_error")
               /\ UNCHANGED <<kepco_data_vec, opt_i>>
    /\ UNCHANGED <<proc, stdout, call, firstPass, option_index, nOptions>>

\* options[i].click().await.context(...)?
option_click ==
    /\ At("option_click")
    /\ \E ok \in BOOLEAN :
          /\ last' = [fn |-> "option_click", res |-> IF ok THEN "ok" ELSE "err", info |-> opt_i]
          /\ IF ok THEN Advance ELSE Fail("driver_error")
    /\ UNCHANGED <<proc, stdout, call, firstPass, olderPass>>

\* extract_data_month(...).await? and the push; then the next option, or the
\* return of Ok(kepco_data_vec) after the last one.
extract_month ==
    /\ At("extract_data_month")
    /\ \E row \in SampleRows :
          LET r == extract_data_month_of[row]
          IN  IF r.kind = "ok"
              THEN /\ kepco_data_vec' = Append(kepco_data_vec, r.data)
                   /\ opt_i' = opt_i + 1
                   /\ pc' = (IF opt_i + 1 < nOptions THEN pc ELSE pc + 1)
                   /\ lpc' = (IF opt_i + 1 < nOptions THEN 1 ELSE 0)
                   /\ last' = [fn |-> "extract_data_month", res |-> "ok", info |-> <<>>]
                   /\ UNCHANGED <<exit, cause>>
              ELSE /\ last' = [fn |-> "extract_data_month", res |-> "err", info |-> <<>>]
                   /\ Fail("record_error")
                   /\ UNCHANGED <<kepco_data_vec, opt_i>>
    /\ UNCHANGED <<proc, stdout, call, firstPass, option_index, nOptions>>

(***************************************************************************)
(* main: output and exit                                                   *)
(***************************************************************************)
\* A variant that writes the document twice.
println_twice(out, doc) == Append(Append(out, doc), doc)

\* println!("{}", json_data): one document more on standard output.
println(out, doc) == Append(out, doc)

\* data_vec.append(&mut additional_data_vec); to_string_pretty; println!
\* (Serializing a KepcoData does not fail, so the '?' after it never returns.)
merge_emit ==
    /\ At("merge_emit")
    /\ data_vec' = data_vec \o kepco_data_vec
    /\ kepco_data_vec' = <<>>
    /\ stdout' = println(stdout, to_json(data_vec \o kepco_data_vec))
    /\ last' = [fn |-> "merge_emit", res |-> "ok",
                info |-> [first |-> data_vec, older |-> kepco_data_vec]]
    /\ Advance
    /\ UNCHANGED <<proc, call, map, tasks, reference_date, option_index, nOptions, opt_i>>

\* chromedriver_process.kill(); Ok(())
kill ==
    /\ At("kill")
    /\ driverKilled' = TRUE
    /\ exit' = "ok"
    /\ pc' = pc + 1
    /\ UNCHANGED <<lpc, cause, sessionClosed, stdout, call, last, firstPass, olderPass>>

Next ==
    \/ connect
    \/ connect_sleep
    \/ driver_call
    \/ wait_for_element
    \/ click_element
    \/ enter_value_in_element
    \/ click_element_with_retries_call
    \/ click_element_with_retries_loop
    \/ wait_for_element_hidden_call
    \/ wait_for_element_hidden_poll
    \/ wait_for_element_hidden_timeout
    \/ get_children_ids_to_map
    \/ parse_data_from_parent_ids_spawn
    \/ \E k \in 1..Len(tasks) : extract_task(k)
    \/ parse_data_from_parent_ids_join
    \/ sort_pivot
    \/ get_option_index
    \/ parsing_options_data_enter
    \/ option_click
    \/ extract_month
    \/ merge_emit
    \/ kill

\* A run of main, from the spawned driver process to the exit.
Spec == Init /\ [][Next]_vars

\* main under the scheduling the runtime gives it: block_on polls main's future
\* and the spawned tasks whenever one of them can make progress, and every
\* sleep and every timeout expires, so a step that stays possible is taken.
SpecLive == Init /\ [][Next]_vars /\ WF_vars(Next)

\* click_element_with_retries on its own, for every max_attempts up to the
\* bound: the state is that of main at its first call of the function.
InitRetries ==
    /\ pc = FirstRetryPc /\ lpc = 0 /\ exit = "running" /\ cause = "none"
    /\ sessionClosed = FALSE /\ driverKilled = FALSE
    /\ stdout = <<>>
    /\ \E m \in 0..MaxAttemptsBound : call = RetryFrame(m)
    /\ last = NoLast
    /\ map = {} /\ tasks = <<>> /\ data_vec = <<>> /\ reference_date = <<>>
    /\ option_index = 0 /\ nOptions = 0 /\ opt_i = 0 /\ kepco_data_vec = <<>>

NextRetries == click_element_with_retries_loop

SpecRetries == InitRetries /\ [][NextRetries]_vars
(***************************************************************************)
(* The normalizers and the two extractors on their own: each is applied to *)
(* every text, or every row of texts, of a bounded family                  *)
(***************************************************************************)
\* The longest text drawn character by character.
MaxTextLen == 3

\* The longest digits-and-separators part of a currency text.
MaxAmountLen == 4

TextChars == {"0", "1", ",", ".", "-", "/", "won"}

\* Every text of at most MaxTextLen characters, the empty one included.
ShortTexts == BoundedSeq(TextChars, MaxTextLen)

AmountChars == {"0", "1", "2", ",", "."}

\* Digits, ',' and '.' in any arrangement, then the currency glyph.
CurrencyTexts == {body \o <<"won">> : body \in BoundedSeq(AmountChars, MaxAmountLen)}

SampleYears == {1900, 2000, 2023, 2024}
SampleMonths == 0..13
SampleDays == {0, 1, 15, 28, 29, 30, 31, 32}

\* "YYYY.MM" and "YYYY.MM.DD" as the page writes them.
ym_token(y, m) == fmt_04(y) \o <<".">> \o fmt_02(m)
ymd_token(y, m, d) == ym_token(y, m) \o <<".">> \o fmt_02(d)

YearMonthTexts == {ym_token(y, m) : y \in SampleYears, m \in SampleMonths}
FullDateTexts == {ymd_token(y, m, d) : y \in SampleYears, m \in SampleMonths, d \in SampleDays}

\* Date-like texts of other shapes: months and days of one digit, a year of
\* two digits (seven bytes with its day), a trailing dot, another separator.
OddDateTexts == {
    <<"2", "0", "2", "3", ".", "5">>,
    <<"2", "0", "2", "3", ".", "5", ".", "1">>,
    <<"2", "3", ".", "0", "5", ".", "1">>,
    <<"2", "0", "2", "3", ".", "0", "5", ".">>,
    <<"2", "0", "2", "3", "-", "0", "5">>,
    <<"2", "0", "2", "3", ".", "0", "5", ".", "0", "1", ".", "0", "1">> }

\* The pieces the usage-window and payment texts are put together from.
DatePieces == {<<>>, <<"x">>, ym_token(2023, 5), ymd_token(2023, 4, 15),
               ymd_token(2023, 5, 14), ymd_token(2023, 2, 30)}

\* Usage windows "a-b", and with a second '-'.
RangeTexts ==
    {a \o <<"-">> \o b : a \in DatePieces, b \in DatePieces}
    \cup {a \o <<"-">> \o b \o <<"-">> \o a : a \in DatePieces, b \in {ym_token(2023, 5), <<>>}}

MethodLabels == {<<>>, <<"A">>, <<"A", "B">>}

\* Payment texts: the label alone, "label/date", and with a second '/'.
PaymentTexts ==
    MethodLabels
    \cup {a \o <<"/">> \o b : a \in MethodLabels, b \in DatePieces}
    \cup {a \o <<"/">> \o b \o <<"/">> \o c :
             a \in MethodLabels, b \in DatePieces, c \in {<<>>, <<"x">>}}

\* Usage texts, with and without the unit, separators, more than one dot.
KwhTexts == {
    TxtKwh120, TxtKwh99,
    <<"1", ",", "2", "3", "4", ".", "5", "k", "W", "h">>,
    <<"k", "W", "h">>,
    <<"1", "k", "W", "h", "2">>,
    <<"1", ".", "2", ".", "3", "k", "W", "h">>,
    <<"k", "W", "k", "W", "h", "h">>,
    <<"1", "2", ".", "5", "0">> }

NormalizerTexts ==
    ShortTexts \cup CurrencyTexts \cup YearMonthTexts \cup FullDateTexts
    \cup OddDateTexts \cup RangeTexts \cup PaymentTexts \cup KwhTexts

\* What one numeric span may show: nothing, a text that parses, one that
\* does not ("-"), the empty text.
UsageCells == {None, Some(TxtKwh120), Some(TxtDash), Some(<<>>)}
AmountCells == {None, Some(TxtWon45000), Some(TxtDash), Some(<<>>)}
PaidCells == {None, Some(TxtWon0), Some(TxtDash)}
UnpaidCells == {None, Some(TxtWon12345), Some(TxtDash)}

ExtractorRows ==
    SampleRows
    \cup {Row(ym, gi, us, am, pa, un, pm) :
             ym \in {None, Some(TxtMay)}, gi \in {None, Some(TxtRange)},
             us \in UsageCells, am \in AmountCells, pa \in PaidCells, un \in UnpaidCells,
             pm \in {None, Some(TxtPayment)}}

InitNormalizers ==
    /\ pc = 1 /\ lpc = 0 /\ exit = "running" /\ cause = "none"
    /\ sessionClosed = FALSE /\ driverKilled = FALSE
    /\ stdout = <<>>
    /\ \/ \E t \in NormalizerTexts : call = [fn |-> "normalizer", text |-> t]
       \/ \E r \in ExtractorRows : call = [fn |-> "extractor", row |-> r]
    /\ last = NoLast
    /\ map = {} /\ tasks = <<>> /\ data_vec = <<>> /\ reference_date = <<>>
    /\ option_index = 0 /\ nOptions = 0 /\ opt_i = 0 /\ kepco_data_vec = <<>>

\* What a call of a normalizer leaves to look at: the function, how it ended,
\* the text it was given and the value it returned.
Returned(fn, r, input) ==
    [fn |-> fn, res |-> IF r.ok THEN "ok" ELSE "err", info |-> [input |-> input, out |-> r.val]]

parse_date_call ==
    /\ call.fn = "normalizer"
    /\ last' = Returned("parse_date", parse_date(call.text), call.text)
    /\ UNCHANGED <<ctl, proc, stdout, call, firstPass, olderPass>>

parse_date_range_call ==
    /\ call.fn = "normalizer"
    /\ LET r == parse_date_range(call.text)
       IN  last' = IF r.panic
                   THEN [fn |-> "parse_date_range", res |-> "panic",
                         info |-> [input |-> call.text, out |-> r.val]]
                   ELSE Returned("parse_date_range", r, call.text)
    /\ UNCHANGED <<ctl, proc, stdout, call, firstPass, olderPass>>

parse_use_kwh_call ==
    /\ call.fn = "normalizer"
    /\ last' = Returned("parse_use_kwh", parse_use_kwh(call.text), call.text)
    /\ UNCHANGED <<ctl, proc, stdout, call, firstPass, olderPass>>

parse_amount_call ==
    /\ call.fn = "normalizer"
    /\ last' = Returned("parse_amount", parse_amount(call.text), call.text)
    /\ UNCHANGED <<ctl, proc, stdout, call, firstPass, olderPass>>

parse_payment_method_call ==
    /\ call.fn = "normalizer"
    /\ last' = Returned("parse_payment_method", parse_payment_method(call.text), call.text)
    /\ UNCHANGED <<ctl, proc, stdout, call, firstPass, olderPass>>

extract_data_year_call ==
    /\ call.fn = "extractor"
    /\ LET r == extract_data_year(call.row)
       IN  last' = [fn |-> "extract_data_year", res |-> r.kind,
                    info |-> [input |-> call.row, out |-> r.data]]
    /\ UNCHANGED <<ctl, proc, stdout, call, firstPass, olderPass>>

extract_data_month_call ==
    /\ call.fn = "extractor"
    /\ LET r == extract_data_month(call.row)
       IN  last' = [fn |-> "extract_data_month", res |-> r.kind,
                    info |-> [input |-> call.row, out |-> r.data]]
    /\ UNCHANGED <<ctl, proc, stdout, call, firstPass, olderPass>>

NextNormalizers ==
    \/ parse_date_call
    \/ parse_date_range_call
    \/ parse_use_kwh_call
    \/ parse_amount_call
    \/ parse_payment_method_call
    \/ extract_data_year_call
    \/ extract_data_month_call

SpecNormalizers == InitNormalizers /\ [][NextNormalizers]_vars

(***************************************************************************)
(* Properties                                                              *)
(***************************************************************************)
\* The number a serialized date stands for (YYYYMMDD), -1 for null.
json_date_key(text) == IF text = JsonNull THEN 0 - 1 ELSE DecVal(remove_all(text, <<"-">>))

\* The document main printed.
Emitted == stdout[Len(stdout)]

\* C1 (as claimed): the emitted array holds at most one record per billing
\* period, and a period that the first pass and the older-window pass both
\* produced is present in the first pass's version.
C1_DedupByPeriod ==
    last.fn = "merge_emit" =>
        /\ \A a, b \in 1..Len(Emitted) :
              (a # b /\ Emitted[a].claim_date # JsonNull)
                  => Emitted[a].claim_date # Emitted[b].claim_date
        /\ \A k \in 1..Len(last.info.first), a \in 1..Len(Emitted) :
              (last.info.first[k].claim_date # None
               /\ Emitted[a].claim_date = json_date(last.info.first[k].claim_date))
                  => Emitted[a] = json_object(last.info.first[k])

\* C2 (as claimed): the emitted array is strictly descending by period.
C2_StrictlyDescending ==
    stdout # <<>> =>
        \A a, b \in 1..Len(Emitted) :
            a < b => json_date_key(Emitted[a].claim_date) > json_date_key(Emitted[b].claim_date)

\* The fatal Navigator failures: a readiness wait that timed out, a
\* busy-cleared wait that timed out, exhausted retries, a missing option.
FatalNavigatorCauses == {"wait_timeout", "hidden_timeout", "retry_exhausted", "option_not_found"}

\* C3 (as claimed): a run ended by a fatal Navigator failure has closed the
\* remote session and killed the driver process, and exits non-zero.
C3_FatalFailureTearsDown ==
    cause \in FatalNavigatorCauses =>
        exit = "err" /\ sessionClosed /\ driverKilled

\* C4 (as claimed): when wait_for_element returns an error the session is
\* closed and the driver killed; when it returns the element it did neither.
C4_AwaitReadyTeardown ==
    last.fn = "wait_for_element" =>
        /\ last.res = "err" => (~last.info.found /\ sessionClosed /\ driverKilled)
        /\ last.res = "ok" => (last.info.found /\ ~last.info.closed /\ ~last.info.killed)

RetryFrameNow ==
    IF call.fn = "click_element_with_retries" THEN call ELSE last.info

IsFailedAttempt(out) == out \in {"click_err", "find_err"}

\* C6: click_element_with_retries makes at most max_attempts attempts, each
\* failed one followed by one backoff; it returns success at the first attempt
\* that finds and clicks, and the exhausted error exactly when max_attempts
\* attempts have failed (with no attempt at all when max_attempts is 0).
C6_RetryLoop ==
    (call.fn = "click_element_with_retries" \/ last.fn = "click_element_with_retries") =>
        LET f == RetryFrameNow
            failed == {k \in 1..Len(f.log) : IsFailedAttempt(f.log[k])}
        IN  /\ Len(f.log) <= f.max_attempts
            /\ f.sleeps = Cardinality(failed)
            /\ call.fn = "click_element_with_retries" => failed = 1..Len(f.log)
            /\ (last.fn = "click_element_with_retries" /\ last.res = "ok") =>
                  /\ f.log[Len(f.log)] = "clicked"
                  /\ failed = 1..(Len(f.log) - 1)
                  /\ exit = "running"
            /\ (last.fn = "click_element_with_retries" /\ last.res = "err") =>
                  /\ failed = 1..f.max_attempts
                  /\ Len(f.log) = f.max_attempts
                  /\ exit = "err" /\ cause = "retry_exhausted"

C6_Witness ==
    /\ last.fn = "click_element_with_retries" /\ last.res = "ok"
    /\ Len(last.info.log) = 3 /\ last.info.max_attempts = 3

\* C7: wait_for_element_hidden returns success only on a poll that read
\* aria-hidden = "true"; every other read (another value, none, an error) is
\* followed by a one-second sleep and another poll; when the timeout elapses
\* with no such read it returns an error.
C7_BusyCleared ==
    /\ call.fn = "wait_for_element_hidden" =>
          /\ call.polls = call.elapsed
          /\ call.elapsed <= call.duration
          /\ call.polls > 0 => call.read \in (AriaReads \ {"true"})
    /\ (last.fn = "wait_for_element_hidden" /\ last.res = "ok") =>
          /\ last.info.read = "true"
          /\ last.info.polls = last.info.elapsed + 1
          /\ last.info.elapsed < last.info.duration
          /\ exit = "running"
    /\ (last.fn = "wait_for_element_hidden" /\ last.res = "err") =>
          /\ last.info.read # "true"
          /\ last.info.elapsed >= last.info.duration
          /\ last.info.polls = last.info.elapsed
          /\ exit = "err" /\ cause = "hidden_timeout"

C7_Witness ==
    /\ last.fn = "wait_for_element_hidden" /\ last.res = "ok"
    /\ last.info.polls = 3

\* The tasks that ended with a record, in spawn order.
OkTasks == {k \in 1..Len(tasks) : tasks[k].result.kind = "ok"}

\* C8: parse_data_from_parent_ids returns only when every task has ended,
\* returns success, and returns exactly the records of the N-k tasks that
\* produced one, each unchanged, whatever the k others did (error or panic).
C8_FailureIsolation ==
    last.fn = "parse_data_from_parent_ids" =>
        /\ last.res = "ok" /\ exit = "running"
        /\ Len(tasks) = Cardinality(map)
        /\ \A k \in 1..Len(tasks) : tasks[k].state = "done"
        /\ Len(data_vec) = Len(tasks) - Cardinality((1..Len(tasks)) \ OkTasks)
        /\ \A j \in 1..Len(data_vec) :
              \E k \in OkTasks :
                  /\ Cardinality({m \in OkTasks : m <= k}) = j
                  /\ data_vec[j] = tasks[k].result.data

C8_Witness ==
    /\ last.fn = "parse_data_from_parent_ids"
    /\ Len(tasks) = 2
    /\ tasks[1].result.kind \in {"err", "panic"}
    /\ tasks[2].result.kind = "ok"

\* C9 (as claimed): a failed extraction of one record never ends the run, in
\* the older-window passes of parsing_options_data either.
C9_RecordFailureNeverFailsRun ==
    (last.fn = "extract_data_month" /\ last.res = "err") => exit = "running"

\* text is "<year>nyeon <MM>wol" for the date: four year digits, the year mark,
\* a space, two month digits, the month mark.
RenderedAs(text, date) ==
    /\ Len(text) = 9
    /\ AllDigits(SubSeq(text, 1, 4)) /\ DecVal(SubSeq(text, 1, 4)) = date.year
    /\ text[5] = "nyeon" /\ text[6] = " "
    /\ AllDigits(SubSeq(text, 7, 8)) /\ DecVal(SubSeq(text, 7, 8)) = date.month
    /\ text[9] = "wol"

\* The billing periods the first-pass records hold.
PeriodsPresent == {Unwrap(data_vec[k].claim_date) :
                      k \in {j \in 1..Len(data_vec) : data_vec[j].claim_date # None}}

OldestPeriod == CHOOSE d \in PeriodsPresent : \A e \in PeriodsPresent : ~date_lt(e, d)

\* The pivot has been computed and the older records are not yet merged in.
PivotComputed == reference_date # <<>> /\ stdout = <<>>

\* C10 (as claimed): the pivot text is the rendering of the oldest billing
\* period present among the first-pass records.
C10_PivotIsOldestPresent ==
    (PivotComputed /\ PeriodsPresent # {}) => RenderedAs(reference_date, OldestPeriod)

\* C10 (amended): the pivot text is the rendering of the oldest billing period
\* when every first-pass record has one, and "N/A" when some record has none.
C10_PivotIsOldestOrNA ==
    PivotComputed =>
        IF \E k \in 1..Len(data_vec) : data_vec[k].claim_date = None
        THEN reference_date = NA
        ELSE RenderedAs(reference_date, OldestPeriod)

C10_Witness ==
    /\ PivotComputed /\ last.fn = "sort_pivot"
    /\ Len(data_vec) = 2
    /\ data_vec[1].claim_date # None /\ data_vec[2].claim_date # None
    /\ data_vec[1].claim_date # data_vec[2].claim_date

\* The options get_option_index read, as it returned them.
OptionsRead == last.info

\* C11: get_option_index returns the index of the first option, in picker
\* order, whose text equals the pivot text exactly; when no option's text
\* equals it the function fails with the option-not-found error, the run ends
\* non-zero at that statement, and nothing runs after it (no option is ever
\* clicked).
C11_OptionResolution ==
    /\ [](last.fn = "get_option_index" =>
            /\ last.res = "ok" =>
                  /\ option_index + 1 \in 1..Len(OptionsRead)
                  /\ OptionsRead[option_index + 1] = Some(reference_date)
                  /\ \A j \in 1..option_index : OptionsRead[j] # Some(reference_date)
                  /\ nOptions = Len(OptionsRead)
                  /\ exit = "running"
            /\ (last.res = "err" /\ cause = "option_not_found") =>
                  /\ \A k \in 1..Len(OptionsRead) : OptionsRead[k] # Some(reference_date)
                  /\ exit = "err"
                  /\ Program[pc].op = "get_option_index" /\ lpc = 0
                  /\ kepco_data_vec = <<>>
            /\ (\A k \in 1..Len(OptionsRead) : OptionsRead[k] # Some(reference_date)) =>
                  last.res = "err")
    /\ [][~(last.fn = "get_option_index" /\ last.res = "err")]_vars

C11_Witness ==
    /\ last.fn = "get_option_index" /\ last.res = "ok"
    /\ Len(OptionsRead) = 2
    /\ OptionsRead[1] = OptionsRead[2]

\* Both passes are over: the pivot is computed, no helper is in progress, and
\* parsing_options_data has gone through the last option and returned.
AllPassesFinished ==
    /\ reference_date # <<>>
    /\ call.fn = "none" /\ lpc = 0
    /\ opt_i = nOptions
    /\ \A k \in 1..Len(tasks) : tasks[k].state = "done"

\* C12: a run that ends with an error (or a panic) has printed no JSON and
\* exits non-zero; a run that exits 0 has printed the JSON array exactly once;
\* the array is printed after both passes have finished and before the driver
\* process is killed, and it is the merged vector.
C12_OutputOnlyOnSuccess ==
    /\ [](/\ exit \in {"err", "panic"} => stdout = <<>>
          /\ exit = "ok" => (Len(stdout) = 1 /\ driverKilled)
          /\ Len(stdout) <= 1)
    /\ [][/\ stdout' # stdout =>
               /\ stdout = <<>> /\ Len(stdout') = 1
               /\ stdout'[1] = to_json(data_vec')
               /\ AllPassesFinished
               /\ ~driverKilled /\ ~driverKilled'
               /\ exit = "running" /\ exit' = "running"
          /\ (exit' = "ok" /\ exit # "ok") =>
               /\ Len(stdout) = 1 /\ stdout' = stdout
               /\ ~driverKilled /\ driverKilled']_vars

C12_Witness ==
    /\ exit = "ok" /\ driverKilled
    /\ Len(stdout) = 1 /\ Len(stdout[1]) >= 2

\* The row an extractor was given and the record it built.
ExtractedFrom == last.info.input
Extracted == last.info.out

ByExtractor == last.fn \in {"extract_data_year", "extract_data_month"}

\* A usage text that is there but is no number.
UnparseableUsage(row) == row.useKwh # None /\ ~parse_use_kwh(Unwrap(row.useKwh)).ok

\* The amount texts that are there but are no number.
UnparseableAmounts(row) ==
    {f \in {"monthPay", "pay", "payAmt"} : row[f] # None /\ ~parse_amount(Unwrap(row[f])).ok}

\* A date text that is there and makes the extractor fail: a billing month
\* that does not parse; for extract_data_year also a usage window without '-'.
FailingDateText(row) ==
    \/ row.payYm # None /\ ~parse_date(Unwrap(row.payYm)).ok
    \/ /\ last.fn = "extract_data_year"
       /\ row.gigan # None
       /\ \A k \in 1..Len(Unwrap(row.gigan)) : Unwrap(row.gigan)[k] # "-"

\* C13 (as claimed): usage, amount, paid and unpaid are zero when their text
\* is absent and also when it is present but unparseable, and the record is
\* produced in both cases.
C13_NumericDefaulting ==
    (ByExtractor /\ ~FailingDateText(ExtractedFrom)) =>
        /\ last.res = "ok"
        /\ (ExtractedFrom.useKwh = None \/ UnparseableUsage(ExtractedFrom))
              => Extracted.usage = F64Zero
        /\ (ExtractedFrom.monthPay = None \/ "monthPay" \in UnparseableAmounts(ExtractedFrom))
              => Extracted.amount = 0
        /\ (ExtractedFrom.pay = None \/ "pay" \in UnparseableAmounts(ExtractedFrom))
              => Extracted.paid = 0
        /\ (ExtractedFrom.payAmt = None \/ "payAmt" \in UnparseableAmounts(ExtractedFrom))
              => Extracted.unpaid = 0

\* C13 (amended): in a record an extractor produces, a numeric field whose
\* text is absent is zero and one whose text is present holds the parsed
\* value; a numeric text that is present but unparseable makes the extractor
\* return that error, with no record; and an extractor fails only because of
\* a text that is present (never because one is absent).
C13_DefaultOnlyWhenAbsent ==
    ByExtractor =>
        /\ last.res = "ok" =>
              /\ Extracted.usage = (IF ExtractedFrom.useKwh = None THEN F64Zero
                                    ELSE parse_use_kwh(Unwrap(ExtractedFrom.useKwh)).val)
              /\ Extracted.amount = (IF ExtractedFrom.monthPay = None THEN 0
                                     ELSE parse_amount(Unwrap(ExtractedFrom.monthPay)).val)
              /\ Extracted.paid = (IF ExtractedFrom.pay = None THEN 0
                                   ELSE parse_amount(Unwrap(ExtractedFrom.pay)).val)
              /\ Extracted.unpaid = (IF ExtractedFrom.payAmt = None THEN 0
                                     ELSE parse_amount(Unwrap(ExtractedFrom.payAmt)).val)
        /\ (UnparseableUsage(ExtractedFrom) \/ UnparseableAmounts(ExtractedFrom) # {})
              => (last.res # "ok" /\ Extracted = NoData)
        /\ last.res # "ok" =>
              \/ FailingDateText(ExtractedFrom)
              \/ UnparseableUsage(ExtractedFrom)
              \/ UnparseableAmounts(ExtractedFrom) # {}

C13_Witness ==
    /\ last.fn = "extract_data_month" /\ last.res = "ok"
    /\ ExtractedFrom.pay = None /\ Extracted.paid = 0
    /\ ExtractedFrom.monthPay # None /\ Extracted.amount = 45000

Normalizers ==
    {"parse_date", "parse_date_range", "parse_use_kwh", "parse_amount", "parse_payment_method"}

\* C14 (as claimed): every normalizer returns, for every text, a typed value
\* or a parse error; none panics, on a usage window without '-' and on the
\* empty text either.
C14_NormalizersTotal ==
    last.fn \in Normalizers => last.res \in {"ok", "err"}

\* Where the text has the character.
Positions(s, c) == {k \in 1..Len(s) : s[k] = c}

\* Some(text) of a text that is not empty, None of the empty one.
NonEmpty(text) == IF text = <<>> THEN None ELSE Some(text)

\* Some(date) when the token parses with parse_date, None otherwise.
DateOrAbsent(token) == IF parse_date(token).ok THEN Some(parse_date(token).val) ELSE None

\* C15: parse_payment_method never returns an error; for a text "A/B" (one
\* '/', A before it and B after it) the method is A when A is not empty and
\* absent when it is, and the date is parse_date(B) when B parses and absent
\* otherwise; for a text with no '/' the method is the text (absent when
\* empty) and the date is absent.  With more than one '/', A and B are the
\* parts before the first '/' and between the first two.
C15_CombinedPayment ==
    last.fn = "parse_payment_method" =>
        LET s == last.info.input
            method == last.info.out[1]
            date == last.info.out[2]
            slashes == Positions(s, "/")
        IN  /\ last.res = "ok"
            /\ slashes = {} => (method = NonEmpty(s) /\ date = None)
            /\ \A k \in slashes :
                  (\A j \in slashes : k <= j) =>
                      LET rest == SubSeq(s, k + 1, Len(s))
                          more == Positions(rest, "/")
                          B == IF more = {} THEN rest
                               ELSE SubSeq(rest, 1, (CHOOSE m \in more : \A n \in more : m <= n) - 1)
                      IN  /\ method = NonEmpty(SubSeq(s, 1, k - 1))
                          /\ date = DateOrAbsent(B)

C15_Witness ==
    /\ last.fn = "parse_payment_method" /\ last.res = "ok"
    /\ Cardinality(Positions(last.info.input, "/")) = 1
    /\ last.info.input[Len(last.info.input)] # "/"
    /\ last.info.out[1] # None /\ last.info.out[2] = None

\* The text is digits, ',' and '.' in any arrangement followed by the
\* currency glyph, with at least one digit.
IsCurrencyText(s) ==
    /\ Len(s) >= 2 /\ s[Len(s)] = "won"
    /\ \A k \in 1..(Len(s) - 1) : IsDigit(s[k]) \/ s[k] \in {",", "."}
    /\ \E k \in 1..(Len(s) - 1) : IsDigit(s[k])

\* The digits of the text, in order, read as one decimal number.
DigitsValue(s) == DecVal(SelectSeq(s, IsDigit))

\* C16: for a currency text (digits, ',' and '.', then the currency glyph)
\* parse_amount returns the integer whose digits are the digits of the text in
\* order: every ',' and '.' is deleted, nothing is rounded ("1,234.5won"
\* gives 12345).
C16_CurrencyAmount ==
    (last.fn = "parse_amount" /\ IsCurrencyText(last.info.input)) =>
        (last.res = "ok" /\ last.info.out = DigitsValue(last.info.input))

C16_Witness ==
    /\ last.fn = "parse_amount" /\ IsCurrencyText(last.info.input)
    /\ Positions(last.info.input, ",") # {} /\ Positions(last.info.input, ".") # {}
    /\ last.info.out = 12

\* The number written at positions a..b of the text, -1 when they are not
\* all digits.
NumberAt(s, a, b) ==
    IF AllDigits(SubSeq(s, a, b)) THEN DecVal(SubSeq(s, a, b)) ELSE 0 - 1

\* "YYYY.MM": four digits, a dot, two digits that are a month.
IsYearMonthToken(s) ==
    /\ Len(s) = 7 /\ s[5] = "."
    /\ NumberAt(s, 1, 4) >= 0
    /\ NumberAt(s, 6, 7) \in 1..12

\* "YYYY.MM.DD": a year-month token, a dot, two digits that are a day of
\* that month.
IsFullDateToken(s) ==
    /\ Len(s) = 10 /\ s[8] = "."
    /\ IsYearMonthToken(SubSeq(s, 1, 7))
    /\ NumberAt(s, 9, 10) >= 1
    /\ NumberAt(s, 9, 10) <= DaysIn(NumberAt(s, 1, 4), NumberAt(s, 6, 7))

\* C17: for a truncated token "YYYY.MM" parse_date returns the first day of
\* that month, and for a full token "YYYY.MM.DD" it returns that date.
C17_TruncatedDate ==
    last.fn = "parse_date" =>
        LET s == last.info.input
        IN  /\ IsYearMonthToken(s) =>
                  /\ last.res = "ok"
                  /\ last.info.out = Date(NumberAt(s, 1, 4), NumberAt(s, 6, 7), 1)
            /\ IsFullDateToken(s) =>
                  /\ last.res = "ok"
                  /\ last.info.out = Date(NumberAt(s, 1, 4), NumberAt(s, 6, 7), NumberAt(s, 9, 10))

C17_Witness ==
    /\ last.fn = "parse_date" /\ IsYearMonthToken(last.info.input)
    /\ last.info.out = Date(2024, 2, 1)

\* Some spawned extraction task has not ended yet.
ExtractionRunning == \E k \in 1..Len(tasks) : tasks[k].state = "running"

\* C18: while an extraction task spawned by parse_data_from_parent_ids is
\* still running, main is inside parse_data_from_parent_ids and takes no step
\* of its own: no statement starts or completes (no back, no click, no text
\* entry) until every task has ended with a result or a crash.
C18_NoNavigationDuringExtraction ==
    /\ [](ExtractionRunning =>
            /\ call.fn = "parse_data_from_parent_ids"
            /\ Program[pc].op = "parse_data_from_parent_ids" /\ lpc = 0
            /\ exit = "running")
    /\ [][ExtractionRunning => UNCHANGED <<pc, lpc, exit, call, last, data_vec>>]_vars

C18_Witness ==
    /\ last.fn = "driver" /\ last.info = "back" /\ last.res = "ok"
    /\ Len(data_vec) = 2

\* The navigation states, in order.
NavStates == <<"Start", "MenuOpened", "LoginFormOpened", "CredentialsEntered",
               "Authenticated", "BillingScreenOpened", "DetailScreenOpened",
               "RangeSelectedRecent", "ReturnToPicker", "RangeSelectedOlder", "Done">>

\* The statements of main whose completion enters the next navigation state:
\* the two menu clicks, the entry of the password, the login click, the click
\* on the billing link, the click on the detail button, the selection of the
\* one-year range, and the browser's back.
Entering == {
    [op |-> "click_element", loc |-> "btnSiteMap"],
    [op |-> "click_element", loc |-> "mobileGoLogin"],
    [op |-> "enter_value_in_element", loc |-> "ui_pw"],
    [op |-> "click_element", loc |-> "btn_login"],
    [op |-> "click_element_with_retries", loc |-> "fee_link", max_attempts |-> MainMaxAttempts],
    [op |-> "click_element", loc |-> "btn_moveDetail"],
    [op |-> "click_element_with_retries", loc |-> "option_1year", max_attempts |-> MainMaxAttempts],
    [op |-> "driver", what |-> "back"] }

IsBack(k) == Program[k] = [op |-> "driver", what |-> "back"]

\* Where the navigation stands in NavStates: one state per entering statement
\* completed, RangeSelectedOlder once an older option has been clicked, Done
\* once parsing_options_data has returned.
NavRank ==
    1 + Cardinality({k \in 1..(pc - 1) : k <= Len(Program) /\ Program[k] \in Entering})
      + (IF \E k \in 1..pc : k <= Len(Program) /\ Program[k].op = "parsing_options_data"
                              /\ (k < pc \/ lpc >= 2 \/ kepco_data_vec # <<>>)
         THEN 1 ELSE 0)
      + (IF \E k \in 1..(pc - 1) : k <= Len(Program) /\ Program[k].op = "parsing_options_data"
         THEN 1 ELSE 0)

\* C19: the navigation moves only forward through NavStates, one state at a
\* time (RangeSelectedOlder is re-entered once per older option); a statement
\* runs only in a run in which every earlier statement, readiness waits
\* included, has returned success; the browser's back is one statement of
\* main, run at most once, and only after the first-pass extraction has
\* completed and the pivot is computed.
C19_ForwardOnly ==
    /\ [](/\ NavRank \in 1..Len(NavStates)
          /\ last.res = "err" => exit = "err"
          /\ Cardinality({k \in 1..Len(Program) : IsBack(k)}) = 1)
    /\ [][/\ exit = "running" /\ last.res \in {"ok", "none"}
          /\ pc' \in {pc, pc + 1}
          /\ NavRank' \in {NavRank, NavRank + 1}
          /\ lpc' # lpc =>
                \/ lpc' = lpc + 1 /\ lpc' <= Len(LoopBody)
                \/ lpc = Len(LoopBody) /\ lpc' \in {0, 1} /\ opt_i' = opt_i + 1
          /\ (pc' = pc + 1 /\ IsBack(pc)) =>
                /\ NavStates[NavRank] = "RangeSelectedRecent"
                /\ NavStates[NavRank'] = "ReturnToPicker"
                /\ ~ExtractionRunning /\ call.fn = "none"
                /\ reference_date # <<>>]_vars

C19_Witness ==
    /\ exit = "ok" /\ NavStates[NavRank] = "Done"
    /\ option_index = 0 /\ nOptions = 2

\* C20 (as claimed): when the first pass yields no record (no child under
\* the container, or every extraction failed), main does not crash while
\* computing the pivot: the run goes on, or ends with a returned error.
C20_EmptyFirstPassNoCrash ==
    (last.fn = "sort_pivot" /\ data_vec = <<>>) => exit \in {"running", "err"}

\* A step that issues an operation on the remote session: connecting, a
\* navigation or script call, a find, a click, text entry, a read of a text
\* or an attribute (the steps of the extraction tasks included).
DriverOperation ==
    \/ connect
    \/ driver_call
    \/ wait_for_element
    \/ click_element
    \/ enter_value_in_element
    \/ click_element_with_retries_loop
    \/ wait_for_element_hidden_call
    \/ wait_for_element_hidden_poll
    \/ get_children_ids_to_map
    \/ \E k \in 1..Len(tasks) : extract_task(k)
    \/ get_option_index
    \/ parsing_options_data_enter
    \/ option_click
    \/ extract_month

TornDown == sessionClosed \/ driverKilled

\* C21: once the remote session has been closed or the driver process
\* killed (by wait_for_element when its element did not appear, in main, in
\* wait_for_element_hidden or in parsing_options_data, or by main's last
\* statement), the run is over, no helper and no extraction task is in
\* progress, and no step issues a driver operation any more.
C21_NoUseAfterTeardown ==
    /\ [](TornDown =>
            /\ exit \in {"ok", "err"}
            /\ call.fn = "none"
            /\ ~ExtractionRunning)
    /\ [][TornDown => ~DriverOperation]_vars

C21_Witness ==
    /\ sessionClosed /\ driverKilled
    /\ exit = "err" /\ cause = "wait_timeout"
    /\ lpc > 0 /\ LoopBody[lpc].op = "wait_for_element"

\* main holds a client: the connection loop has been left.
Connected == pc > 1 \/ exit # "running"

\* Once the connection loop has been left the run ends: the readiness wait,
\* the busy-cleared poll, the click retries and the option iteration are all
\* bounded.
TerminatesOnceConnected == Connected ~> (exit # "running")

\* C22: every run eventually ends, with exit 0 or with a fatal error,
\* whatever the driver does.
C22_Termination == <>(exit # "running")
====
